---- MODULE Spec2Model ----
(***************************************************************************)
(* A model of the two notebooks of the Landsat cookbook:                   *)
(*   notebooks/2.0_Preprocessing.ipynb        (regrid and compare)         *)
(*   notebooks/3.0_Spectral_Clustering_PC.ipynb (cluster and compare)      *)
(* A notebook is a sequence of cells run top to bottom; a cell is one      *)
(* action, and the notebook's names are the variables.  Coordinates are    *)
(* integers (metres, scaled); array values are exact rationals <<n, d>>    *)
(* with d > 0, and the missing-value marker NaN is <<0, 0>>.               *)
(***************************************************************************)
EXTENDS Integers, Sequences, FiniteSets, TLC

\* ------------------------------------------------------------------ bounds
\* Digital numbers of a pixel band are drawn from 0..MaxDN.
MaxDN == 2
\* The source scenes are drawn from MaxSeed + 1 pixel patterns.
MaxSeed == 1
\* Clicks land on the integer points of 0..MaxCoord in each axis.
MaxCoord == 4
\* The buffer of the region of interest is drawn from 1..MaxBuffer.
MaxBuffer == 3
\* The resolution of the target grid is drawn from 1..MaxRes.
MaxRes == 2
\* The resolution of the downsampled grid is drawn from 1..MaxCoarse.
MaxCoarse == 3
\* A catalog search returns at most MaxItems scenes.
MaxItems == 2
\* The scenes of the clustering notebook have NBands bands.
NBands == 2
\* The label vectors of a fit are drawn from the patterns of stride
\* 0..MaxStride.
MaxStride == 1

\* ---------------------------------------------------- numbers and values
Abs(n) == IF n < 0 THEN -n ELSE n

RECURSIVE GCD(_, _)
GCD(a, b) == IF b = 0 THEN a ELSE GCD(b, a % b)

NaN == <<0, 0>>

IsNaN(v) == v[2] = 0

\* The rational n/d in lowest terms with a positive denominator.
Norm(n, d) ==
  IF d = 0 THEN NaN
  ELSE LET g == GCD(Abs(n), Abs(d))
           s == IF d < 0 THEN -1 ELSE 1
       IN  <<(s * n) \div g, (s * d) \div g>>

Num(n) == <<n, 1>>

\* IEEE arithmetic on the values: an operation with a NaN operand is NaN.
FAdd(a, b) == IF IsNaN(a) \/ IsNaN(b) THEN NaN
              ELSE Norm(a[1] * b[2] + b[1] * a[2], a[2] * b[2])

FSub(a, b) == IF IsNaN(a) \/ IsNaN(b) THEN NaN
              ELSE Norm(a[1] * b[2] - b[1] * a[2], a[2] * b[2])

FMul(a, b) == IF IsNaN(a) \/ IsNaN(b) THEN NaN
              ELSE Norm(a[1] * b[1], a[2] * b[2])

\* 0/0 is NaN.  (A nonzero value over zero would be an infinity; no division
\* of the notebooks can produce one: NIR + Red = 0 forces NIR = Red = 0, and a
\* zero standard deviation forces every deviation from the mean to be zero.)
FDiv(a, b) == IF IsNaN(a) \/ IsNaN(b) \/ b[1] = 0 THEN NaN
              ELSE Norm(a[1] * b[2], a[2] * b[1])

\* ------------------------------------------------------------- sequences
Range(s) == {s[i] : i \in DOMAIN s}

RECURSIVE SortSet(_)
SortSet(S) ==
  IF S = {} THEN <<>>
  ELSE LET m == CHOOSE a \in S : \A b \in S : a <= b
       IN  <<m>> \o SortSet(S \ {m})

\* The index of coordinate c in the coordinate sequence cs (0: absent).
IndexOf(cs, c) ==
  IF c \in Range(cs) THEN CHOOSE i \in DOMAIN cs : cs[i] = c ELSE 0

\* -------------------------------------------------------------- np.arange
\* np.arange(start, stop, step): ceil((stop - start) / step) values
\* start, start + step, ...
\* A mutant of arange: the stop value is generated when it is on the lattice.
ArangeEndInclusive(start, stop, step) ==
  [i \in 1..((stop - start) \div step + 1) |-> start + (i - 1) * step]

arange(start, stop, step) ==
  LET n == IF stop > start THEN (stop - start + step - 1) \div step ELSE 0
  IN  [i \in 1..n |-> start + (i - 1) * step]


\* ------------------------------------------------------------ DataArrays
\* A two-dimensional DataArray: its x and y coordinate sequences and its
\* values v[j][i], the value at (x[i], y[j]) (dims (y, x)).
DataArray(xs, ys, val(_, _)) ==
  [x |-> xs, y |-> ys,
   v |-> [j \in DOMAIN ys |-> [i \in DOMAIN xs |-> val(i, j)]]]

NoArray == [x |-> <<>>, y |-> <<>>, v |-> <<>>]

\* The cells of a DataArray, as index pairs <<i, j>>.
Cells(da) == (DOMAIN da.x) \X (DOMAIN da.y)

\* The value of da at the coordinate labels (cx, cy), both present in da.
At(da, cx, cy) == da.v[IndexOf(da.y, cy)][IndexOf(da.x, cx)]

\* ------------------------------------------------------- the source scenes
\* The coordinate sequences of the two sample scenes: different resolutions,
\* different numbers of cells and different offsets.
Landsat5X == <<0, 2, 4>>
Landsat5Y == <<1, 3, 5>>
Landsat8X == <<1, 2, 3, 4>>
Landsat8Y == <<1, 2, 3, 4>>

\* The digital numbers of a scene: seed s > 0 puts one fill pixel (every band
\* 0) at cell (s, s); every other pixel has positive bands.
RedDN(s, i, j) == IF s > 0 /\ i = s /\ j = s THEN 0 ELSE 1 + ((i + j) % MaxDN)

NirDN(s, i, j) == IF s > 0 /\ i = s /\ j = s THEN 0 ELSE 1 + ((i * j + s) % MaxDN)

\* A scene: a DataArray with a band axis, here the Red and the NIR band.
Scene(xs, ys, s) ==
  [x |-> xs, y |-> ys,
   red |-> [j \in DOMAIN ys |-> [i \in DOMAIN xs |-> RedDN(s, i, j)]],
   nir |-> [j \in DOMAIN ys |-> [i \in DOMAIN xs |-> NirDN(s, i, j)]]]

\* ------------------------------------------------------------------ NDVI
\* (NIR - Red) / (NIR + Red), in floating point: 0/0 at a fill pixel is NaN.
NDVI(sc) ==
  LET val(i, j) == FDiv(Num(sc.nir[j][i] - sc.red[j][i]),
                        Num(sc.nir[j][i] + sc.red[j][i]))
  IN  DataArray(sc.x, sc.y, val)

\* ------------------------------------------- arithmetic between DataArrays
\* The coordinates of cs that also occur in ds, in the order of cs (the inner
\* join of two indexes).
RECURSIVE InnerJoin(_, _)
InnerJoin(cs, ds) ==
  IF cs = <<>> THEN <<>>
  ELSE (IF Head(cs) \in Range(ds) THEN <<Head(cs)>> ELSE <<>>)
       \o InnerJoin(Tail(cs), ds)

\* The union of two indexes (the outer join): the index itself when both are
\* equal, their sorted union otherwise.
OuterJoin(cs, ds) == IF cs = ds THEN cs ELSE SortSet(Range(cs) \cup Range(ds))

\* The value of da at (cx, cy), NaN where da has no such coordinate.
Reindexed(da, cx, cy) ==
  IF cx \in Range(da.x) /\ cy \in Range(da.y) THEN At(da, cx, cy) ELSE NaN

\* a - b: both operands are aligned on the inner join of their coordinates,
\* then subtracted cell by cell.
\* (A mutant of Subtract: the operands are aligned on the outer join.)
SubtractOuter(a, b) ==
  LET xs == OuterJoin(a.x, b.x)
      ys == OuterJoin(a.y, b.y)
      val(i, j) ==
        IF xs[i] \in Range(a.x) /\ xs[i] \in Range(b.x)
           /\ ys[j] \in Range(a.y) /\ ys[j] \in Range(b.y)
        THEN FSub(At(a, xs[i], ys[j]), At(b, xs[i], ys[j]))
        ELSE NaN
  IN  DataArray(xs, ys, val)

\* A mutant of Subtract: a missing operand counts as 0.
SubtractFillZero(a, b) ==
  LET xs == InnerJoin(a.x, b.x)
      ys == InnerJoin(a.y, b.y)
      zero(v) == IF IsNaN(v) THEN Num(0) ELSE v
      val(i, j) == FSub(zero(At(a, xs[i], ys[j])), zero(At(b, xs[i], ys[j])))
  IN  DataArray(xs, ys, val)

Subtract(a, b) ==
  LET xs == InnerJoin(a.x, b.x)
      ys == InnerJoin(a.y, b.y)
      val(i, j) == FSub(At(a, xs[i], ys[j]), At(b, xs[i], ys[j]))
  IN  DataArray(xs, ys, val)


\* ---------------------------------------------------------------- interp
\* One-dimensional linear interpolation of the samples (cs[k], vs[k]), cs
\* increasing, at t: NaN outside [cs[1], cs[n]] (bounds_error=False, fill
\* NaN); inside, the two samples around t are found by a left bisection
\* clipped to 1..n-1 and joined by a line, in floating point, so that a NaN
\* sample makes NaN of every point computed from it.
\* (Interp1Extrapolate is a mutant of Interp1: the line is extended outside.)
Interp1Extrapolate(cs, vs, t) ==
  LET n  == Len(cs)
      k  == Cardinality({i \in DOMAIN cs : cs[i] < t})
      lo == IF k < 1 THEN 1 ELSE IF k > n - 1 THEN n - 1 ELSE k
      hi == lo + 1
      slope == FDiv(FSub(vs[hi], vs[lo]), Num(cs[hi] - cs[lo]))
  IN  FAdd(FMul(slope, Num(t - cs[lo])), vs[lo])

\* A mutant of Interp1: the value of the sample before t (no line is drawn).
Interp1Previous(cs, vs, t) ==
  LET n  == Len(cs)
      k  == Cardinality({i \in DOMAIN cs : cs[i] < t})
      lo == IF k < 1 THEN 1 ELSE IF k > n - 1 THEN n - 1 ELSE k
  IN  IF t < cs[1] \/ t > cs[n] THEN NaN ELSE vs[lo]

Interp1(cs, vs, t) ==
  LET n  == Len(cs)
      k  == Cardinality({i \in DOMAIN cs : cs[i] < t})
      lo == IF k < 1 THEN 1 ELSE IF k > n - 1 THEN n - 1 ELSE k
      hi == lo + 1
      slope == FDiv(FSub(vs[hi], vs[lo]), Num(cs[hi] - cs[lo]))
  IN  IF t < cs[1] \/ t > cs[n] THEN NaN
      ELSE FAdd(FMul(slope, Num(t - cs[lo])), vs[lo])

\* da.interp(x=xt, y=yt): linear interpolation along x, then along y; the
\* result carries the target coordinates.
\* (interpKeepsSourceX is a mutant of interp: it keeps the source's x.)
interpKeepsSourceX(da, xt, yt) ==
  LET alongX == [j \in DOMAIN da.y |->
                   [i \in DOMAIN da.x |-> Interp1(da.x, da.v[j], da.x[i])]]
      val(i, j) == Interp1(da.y, [k \in DOMAIN da.y |-> alongX[k][i]], yt[j])
  IN  DataArray(da.x, yt, val)

interp(da, xt, yt) ==
  LET alongX == [j \in DOMAIN da.y |->
                   [i \in DOMAIN xt |-> Interp1(da.x, da.v[j], xt[i])]]
      val(i, j) == Interp1(da.y, [k \in DOMAIN da.y |-> alongX[k][i]], yt[j])
  IN  DataArray(xt, yt, val)

\* --------------------------------------------------------------- Dataset
\* xr.Dataset({'NDVI_1988': a, 'NDVI_2017': b}): the variables are aligned on
\* the outer join of their coordinates, NaN where a variable has no value.
Dataset(a, b) ==
  LET xs == OuterJoin(a.x, b.x)
      ys == OuterJoin(a.y, b.y)
  IN  [x |-> xs, y |-> ys,
       NDVI_1988 |-> [j \in DOMAIN ys |->
                        [i \in DOMAIN xs |-> Reindexed(a, xs[i], ys[j])]],
       NDVI_2017 |-> [j \in DOMAIN ys |->
                        [i \in DOMAIN xs |-> Reindexed(b, xs[i], ys[j])]]]

NoDataset == [x |-> <<>>, y |-> <<>>, NDVI_1988 |-> <<>>, NDVI_2017 |-> <<>>]

\* ds[name]: one variable of the Dataset, with the Dataset's coordinates.
Variable(ds, v) == [x |-> ds.x, y |-> ds.y, v |-> v]


\* ---------------------------------------------------- groupby_bins, mean
\* The sum of f over the finite set S of indexes.
RECURSIVE SumOver(_, _)
SumOver(S, f) ==
  IF S = {} THEN Num(0)
  ELSE LET a == CHOOSE b \in S : TRUE
       IN  FAdd(f[a], SumOver(S \ {a}, f))

\* mean(): the mean of the values f[a], a in S, that are not NaN (skipna);
\* NaN when there is none.
NanMean(S, f) ==
  LET present == {a \in S : ~IsNaN(f[a])}
  IN  IF present = {} THEN NaN
      ELSE FDiv(SumOver(present, f), Num(Cardinality(present)))

\* pandas.cut(cs, bins) with the default right=True, include_lowest=False:
\* bin k is the interval (bins[k], bins[k+1]], open on the left and closed on
\* the right.  The indexes of the coordinates of cs that fall into bin k.
\* (BinMembersOpenEnded is a mutant of BinMembers: the last bin has no
\* right edge.)
BinMembersOpenEnded(cs, bins, k) ==
  {i \in DOMAIN cs :
     bins[k] < cs[i] /\ (cs[i] <= bins[k + 1] \/ k = Len(bins) - 1)}

BinMembers(cs, bins, k) ==
  {i \in DOMAIN cs : bins[k] < cs[i] /\ cs[i] <= bins[k + 1]}

\* The bins of a sequence of edges, by number.
Bins(bins) == 1..(Len(bins) - 1)

\* groupby_bins raises ValueError when no coordinate falls into any bin.
NoneInBins(cs, bins) == \A k \in Bins(bins) : BinMembers(cs, bins, k) = {}

\* labels=bins[:-1]: every bin is labeled with its left edge.
BinLabels(bins) == [k \in Bins(bins) |-> bins[k]]

\* A mutant of MeanOverXBins: the bins without cells are left out.
MeanOverXBinsDropEmpty(da, bins) ==
  LET kept == SortSet({k \in 1..(Len(bins) - 1) :
                         BinMembers(da.x, bins, k) # {}})
  IN  [x |-> [n \in DOMAIN kept |-> bins[kept[n]]], y |-> da.y,
       v |-> [j \in DOMAIN da.y |->
                [n \in DOMAIN kept |->
                   NanMean(BinMembers(da.x, bins, kept[n]), da.v[j])]]]

\* da.groupby_bins('x', bins, labels=bins[:-1]).mean(dim='x'): along x, the
\* cells of a bin are replaced by their mean; a bin without cells is kept,
\* with NaN.
MeanOverXBins(da, bins) ==
  [x |-> BinLabels(bins), y |-> da.y,
   v |-> [j \in DOMAIN da.y |->
            [k \in Bins(bins) |-> NanMean(BinMembers(da.x, bins, k), da.v[j])]]]

\* The same along y.
MeanOverYBins(da, bins) ==
  [x |-> da.x, y |-> BinLabels(bins),
   v |-> [k \in Bins(bins) |->
            [i \in DOMAIN da.x |->
               NanMean(BinMembers(da.y, bins, k),
                       [j \in DOMAIN da.y |-> da.v[j][i]])]]]


\* ------------------------------------------------- the clustering scenes
\* The coordinates of the scenes the catalog serves for the bounding box:
\* x increasing, y decreasing (north up).
ClusterX == <<10, 20, 30>>
ClusterY == <<50, 40>>

\* The digital number of band b at cell (i, j) of item s.  Item 0 is a scene
\* whose pixels are all the fill value 0 (the box lies off the scene's data).
BandDN(s, b, i, j) == IF s = 0 THEN 0 ELSE (s + b * i * i + j) % (MaxDN + 1)

\* The scene of catalog item s as a DataArray with dims (band, y, x):
\* v[b][j][i] is the value of band b at (x[i], y[j]).
StacLoad(s) ==
  [band |-> [b \in 1..NBands |-> b], x |-> ClusterX, y |-> ClusterY,
   v |-> [b \in 1..NBands |->
            [j \in DOMAIN ClusterY |->
               [i \in DOMAIN ClusterX |-> Num(BandDN(s, b, i, j))]]]]

NoScene == [band |-> <<>>, x |-> <<>>, y |-> <<>>, v |-> <<>>]

\* The search results: the sequences of at most MaxItems distinct items.
ItemSeqs ==
  {q \in UNION {[1..n -> 0..MaxSeed] : n \in 0..MaxItems} :
     \A a, b \in DOMAIN q : a # b => q[a] # q[b]}

\* ------------------------------------------------------- stack, transpose
\* da.stack(z=("x", "y")): the new axis z runs over the product of the x and
\* the y coordinates, x slowest; sample k = (i-1)*ny + j carries the label
\* <<x[i], y[j]>> and, for each band, the value at that coordinate.
StackIndex(da) ==
  LET ny == Len(da.y)
  IN  [k \in 1..(Len(da.x) * ny) |->
         <<da.x[((k - 1) \div ny) + 1], da.y[((k - 1) % ny) + 1]>>]

\* A mutant of stack: the values are laid out x fastest, the labels y fastest.
StackYFastest(da) ==
  LET nx == Len(da.x)
  IN  [band |-> da.band, z |-> StackIndex(da),
       v |-> [b \in DOMAIN da.band |->
                [k \in 1..(nx * Len(da.y)) |->
                   da.v[b][((k - 1) \div nx) + 1][((k - 1) % nx) + 1]]]]

stack(da) ==
  LET ny == Len(da.y)
  IN  [band |-> da.band, z |-> StackIndex(da),
       v |-> [b \in DOMAIN da.band |->
                [k \in 1..(Len(da.x) * ny) |->
                   da.v[b][((k - 1) % ny) + 1][((k - 1) \div ny) + 1]]]]

\* flattened.transpose("z", "band"): v[k][b], one row per sample.
transpose(fl) ==
  [band |-> fl.band, z |-> fl.z,
   v |-> [k \in DOMAIN fl.z |-> [b \in DOMAIN fl.band |-> fl.v[b][k]]]]

NoMatrix == [band |-> <<>>, z |-> <<>>, v |-> <<>>]

\* A one-dimensional array over the sample axis: the labels z and the values.
NoVector == [z |-> <<>>, v |-> <<>>]

\* flattened_t_xda[:, b]: one column of the sample matrix, with its z labels.
Column(m, b) == [z |-> m.z, v |-> [k \in DOMAIN m.z |-> m.v[k][b]]]

\* template.copy(data=labels): the coordinates of the template, new values.
CopyData(t, data) == [z |-> t.z, v |-> [k \in DOMAIN t.z |-> Num(data[k])]]

\* --------------------------------------------------------------- unstack
\* The distinct values of component c of the z labels, in order of first
\* appearance (the levels of the index).
RECURSIVE Levels(_, _)
Levels(zs, c) ==
  IF zs = <<>> THEN <<>>
  ELSE LET front == Levels(SubSeq(zs, 1, Len(zs) - 1), c)
           last  == zs[Len(zs)][c]
       IN  IF last \in Range(front) THEN front ELSE Append(front, last)

\* A mutant of unstack: the values are laid out by position (a reshape to
\* (x, y)), whatever the labels say.
unstackByPosition(vec) ==
  LET xs == Levels(vec.z, 1)
      ys == Levels(vec.z, 2)
      val(i, j) == vec.v[(i - 1) * Len(ys) + j]
  IN  DataArray(xs, ys, val)

\* vec.unstack(): the z axis is split back into x and y; the cell at
\* (x, y) holds the value of the sample labeled <<x, y>>, NaN if there is none.
unstack(vec) ==
  LET xs == Levels(vec.z, 1)
      ys == Levels(vec.z, 2)
      val(i, j) ==
        IF <<xs[i], ys[j]>> \in Range(vec.z)
        THEN vec.v[CHOOSE k \in DOMAIN vec.z : vec.z[k] = <<xs[i], ys[j]>>]
        ELSE NaN
  IN  DataArray(xs, ys, val)


\* ----------------------------------------------------------- standardize
\* The elements of a sample matrix, as index pairs <<k, b>>.
Elements(m) == (DOMAIN m.z) \X (DOMAIN m.band)

\* m.mean(): one scalar, over every sample and every band.
Mean(m) ==
  LET val == [e \in Elements(m) |-> m.v[e[1]][e[2]]]
  IN  FDiv(SumOver(Elements(m), val), Num(Cardinality(Elements(m))))

\* A mutant of Variance: the sample variance (ddof=1).
VarianceSample(m) ==
  LET mu == Mean(m)
      sq == [e \in Elements(m) |->
               FMul(FSub(m.v[e[1]][e[2]], mu), FSub(m.v[e[1]][e[2]], mu))]
  IN  FDiv(SumOver(Elements(m), sq), Num(Cardinality(Elements(m)) - 1))

\* m.std() squared: the mean squared deviation from Mean(m), over every
\* sample and every band (ddof=0).
Variance(m) ==
  LET mu == Mean(m)
      sq == [e \in Elements(m) |->
               FMul(FSub(m.v[e[1]][e[2]], mu), FSub(m.v[e[1]][e[2]], mu))]
  IN  FDiv(SumOver(Elements(m), sq), Num(Cardinality(Elements(m))))

\* A mutant of Standardize: the mean is taken band by band (mean(dim="z")).
StandardizePerBand(m) ==
  LET bandMean(b) ==
        FDiv(SumOver(DOMAIN m.z, [k \in DOMAIN m.z |-> m.v[k][b]]),
             Num(Len(m.z)))
  IN  [band |-> m.band, z |-> m.z,
       dev |-> [k \in DOMAIN m.z |->
                  [b \in DOMAIN m.band |-> FSub(m.v[k][b], bandMean(b))]],
       var |-> Variance(m)]

\* A mutant of Standardize: a zero standard deviation is replaced by one.
StandardizeGuarded(m) ==
  [band |-> m.band, z |-> m.z,
   dev |-> [k \in DOMAIN m.z |->
              [b \in DOMAIN m.band |-> FSub(m.v[k][b], Mean(m))]],
   var |-> IF Variance(m) = Num(0) THEN Num(1) ELSE Variance(m)]

\* (m - m.mean()) / m.std().  The standard deviation is a square root, so the
\* result is kept as the deviations dev[k][b] = m[k][b] - mean and the
\* variance var: element <<k, b>> of the result is dev[k][b] / sqrt(var).
Standardize(m) ==
  [band |-> m.band, z |-> m.z,
   dev |-> [k \in DOMAIN m.z |->
              [b \in DOMAIN m.band |-> FSub(m.v[k][b], Mean(m))]],
   var |-> Variance(m)]

NoRescaled == [band |-> <<>>, z |-> <<>>, dev |-> <<>>, var |-> NaN]

\* c.persist(r): the collection r, its data now held by client c.
persist(c, r) ==
  [band |-> r.band, z |-> r.z, dev |-> r.dev, var |-> r.var, client |-> c]

NoPersisted == persist(0, NoRescaled)

\* Whether element <<k, b>> of the standardized matrix r, dev / sqrt(var), is
\* NaN: an operand is NaN, or the division is 0/0.  No error is raised by a
\* floating-point division of arrays.
IsNaNElement(r, k, b) ==
  \/ IsNaN(r.dev[k][b])
  \/ IsNaN(r.var)
  \/ (r.var = Num(0) /\ r.dev[k][b] = Num(0))

\* ------------------------------------------------------------ clustering
n_clusters == 4

\* SpectralClustering(n_clusters=4, ...), before fit.
NewClf == [n_clusters |-> n_clusters, fitted |-> FALSE, labels_ |-> <<>>]

\* The label vectors a fit of n samples into c clusters may end with: the
\* final k-means step assigns every sample the number, in 0..c-1, of its
\* nearest centre.  Which one depends on the library's embedding; the model
\* draws it from the patterns (a + b*k) % c.
\* (LabelVectorsOffByOne is a mutant of LabelVectors: labels 1..c.)
LabelVectorsOffByOne(n, c) ==
  {[k \in 1..n |-> ((a + b * k) % c) + 1] : a \in 0..(c - 1), b \in 0..MaxStride}

LabelVectors(n, c) ==
  {[k \in 1..n |-> (a + b * k) % c] : a \in 0..(c - 1), b \in 0..MaxStride}

\* ------------------------------------------------------------------ where
\* da.where(da == t, 0): a cell equal to t keeps its value, every other cell
\* becomes 0.
\* (WhereEqualOne is a mutant of WhereEqualElseZero: a cell equal to t
\* becomes 1.)
WhereEqualOne(da, t) ==
  LET val(i, j) == IF da.v[j][i] = Num(t) THEN Num(1) ELSE Num(0)
  IN  DataArray(da.x, da.y, val)

WhereEqualElseZero(da, t) ==
  LET val(i, j) == IF da.v[j][i] = Num(t) THEN da.v[j][i] ELSE Num(0)
  IN  DataArray(da.x, da.y, val)


\* ================================================================ state
\* The names of notebooks/2.0_Preprocessing.ipynb, and pcA, the next cell.
VARIABLES pcA, landsat_5_da, landsat_8_da, NDVI_1988, NDVI_2017, NDVI_diff,
          center, tap_stream, buffer, xmin, xmax, ymin, ymax, bounding_box,
          res, x, y, NDVI_2017_regridded, NDVI_1988_regridded, ds_regridded,
          diff_regridded, res_1000, x_1000, y_1000, diff_res_1000

\* The names of notebooks/3.0_Spectral_Clustering_PC.ipynb, and pcB, the
\* next cell.
VARIABLES pcB, items, item, da_2017, da_1988, flattened_xda, flattened_t_xda,
          rescaled_xda, client, X, clf, labels, template, output_array,
          unstacked_2017, unstacked_1988, water_cluster_1988,
          water_cluster_2017, water_1988, water_2017, water_diff

varsLoadA == <<landsat_5_da, landsat_8_da>>
varsNdviA == <<NDVI_1988, NDVI_2017, NDVI_diff>>
varsRoiA == <<buffer, xmin, xmax, ymin, ymax, bounding_box>>
varsGridA == <<res, x, y>>
varsRegridA == <<NDVI_2017_regridded, NDVI_1988_regridded, ds_regridded,
                 diff_regridded>>
varsCoarseA == <<res_1000, x_1000, y_1000, diff_res_1000>>
varsA == <<pcA, varsLoadA, varsNdviA, center, tap_stream, varsRoiA, varsGridA,
           varsRegridA, varsCoarseA>>

varsSceneB == <<items, item, da_2017, da_1988>>
varsMatrixB == <<flattened_xda, flattened_t_xda, rescaled_xda>>
varsFitB == <<client, X, clf, labels>>
varsImageB == <<template, output_array, unstacked_2017, unstacked_1988>>
varsWaterB == <<water_cluster_1988, water_cluster_2017, water_1988,
                water_2017, water_diff>>
varsB == <<pcB, varsSceneB, varsMatrixB, varsFitB, varsImageB, varsWaterB>>

vars == <<varsA, varsB>>

\* crs.transform_point(-118.7081, 38.6942, ccrs.PlateCarree()): the known
\* longitude and latitude in the reference system of the data.
TransformedX == 3
TransformedY == 3

\* hv.streams.Tap: whether onclick is subscribed, and the stream's x and y,
\* the position of the last tap (<<>> while there has been none).
NoTap == [subscribed |-> FALSE, xy |-> <<>>]

\* A name that no cell has bound yet holds a placeholder.
InitA ==
  /\ pcA = "load"
  /\ landsat_5_da = Scene(<<>>, <<>>, 0)
  /\ landsat_8_da = Scene(<<>>, <<>>, 0)
  /\ NDVI_1988 = NoArray
  /\ NDVI_2017 = NoArray
  /\ NDVI_diff = NoArray
  /\ center = [x |-> 0, y |-> 0]
  /\ tap_stream = NoTap
  /\ buffer = 0
  /\ xmin = 0 /\ xmax = 0 /\ ymin = 0 /\ ymax = 0
  /\ bounding_box = <<>>
  /\ res = 0
  /\ x = <<>> /\ y = <<>>
  /\ NDVI_2017_regridded = NoArray
  /\ NDVI_1988_regridded = NoArray
  /\ ds_regridded = NoDataset
  /\ diff_regridded = NoArray
  /\ res_1000 = 0
  /\ x_1000 = <<>> /\ y_1000 = <<>>
  /\ diff_res_1000 = NoArray

InitB ==
  /\ pcB = "search_2017"
  /\ items = <<>>
  /\ item = -1
  /\ da_2017 = NoScene
  /\ da_1988 = NoScene
  /\ flattened_xda = NoMatrix
  /\ flattened_t_xda = NoMatrix
  /\ rescaled_xda = NoRescaled
  /\ client = 0
  /\ X = NoPersisted
  /\ clf = NewClf
  /\ labels = <<>>
  /\ template = NoVector
  /\ output_array = NoVector
  /\ unstacked_2017 = NoArray
  /\ unstacked_1988 = NoArray
  /\ water_cluster_1988 = 0
  /\ water_cluster_2017 = 0
  /\ water_1988 = NoArray
  /\ water_2017 = NoArray
  /\ water_diff = NoArray

Init == InitA /\ InitB


\* ======================================= notebooks/2.0_Preprocessing.ipynb
\* landsat_5_da = cat.landsat_5_small.to_dask(), and landsat_8_da.
LoadData ==
  /\ pcA = "load"
  /\ \E s5, s8 \in 0..MaxSeed :
       /\ landsat_5_da' = Scene(Landsat5X, Landsat5Y, s5)
       /\ landsat_8_da' = Scene(Landsat8X, Landsat8Y, s8)
  /\ pcA' = "ndvi_1988"
  /\ UNCHANGED <<varsNdviA, center, tap_stream, varsRoiA, varsGridA,
                 varsRegridA, varsCoarseA, varsB>>

ComputeNDVI_1988 ==
  /\ pcA = "ndvi_1988"
  /\ NDVI_1988' = NDVI(landsat_5_da)
  /\ pcA' = "ndvi_2017"
  /\ UNCHANGED <<varsLoadA, NDVI_2017, NDVI_diff, center, tap_stream, varsRoiA,
                 varsGridA, varsRegridA, varsCoarseA, varsB>>

ComputeNDVI_2017 ==
  /\ pcA = "ndvi_2017"
  /\ NDVI_2017' = NDVI(landsat_8_da)
  /\ pcA' = "ndvi_diff"
  /\ UNCHANGED <<varsLoadA, NDVI_1988, NDVI_diff, center, tap_stream, varsRoiA,
                 varsGridA, varsRegridA, varsCoarseA, varsB>>

\* NDVI_diff = NDVI_2017 - NDVI_1988, on the native grids.
ComputeNDVI_diff ==
  /\ pcA = "ndvi_diff"
  /\ NDVI_diff' = Subtract(NDVI_2017, NDVI_1988)
  /\ pcA' = "center"
  /\ UNCHANGED <<varsLoadA, NDVI_1988, NDVI_2017, center, tap_stream, varsRoiA,
                 varsGridA, varsRegridA, varsCoarseA, varsB>>

\* center['x'], center['y'] = crs.transform_point(...)
SetCenter ==
  /\ pcA = "center"
  /\ center' = [x |-> TransformedX, y |-> TransformedY]
  /\ pcA' = "tap"
  /\ UNCHANGED <<varsLoadA, varsNdviA, tap_stream, varsRoiA, varsGridA,
                 varsRegridA, varsCoarseA, varsB>>

\* tap_stream = hv.streams.Tap(source=crs_plot);
\* tap_stream.add_subscriber(onclick)
ConnectTap ==
  /\ pcA = "tap"
  /\ tap_stream' = [subscribed |-> TRUE, xy |-> <<>>]
  /\ pcA' = "roi"
  /\ UNCHANGED <<varsLoadA, varsNdviA, center, varsRoiA, varsGridA,
                 varsRegridA, varsCoarseA, varsB>>

\* A mutant of onclick: only center['x'] is assigned.
onclickOnlyX(cx, cy) == center' = [center EXCEPT !.x = cx]

\* def onclick(x, y): center['x'] = x; center['y'] = y
onclick(cx, cy) == center' = [x |-> cx, y |-> cy]

\* A mutant of Tap: the handler also moves the box to the new center.
TapMovesBox(cx, cy) ==
  /\ tap_stream.subscribed
  /\ tap_stream' = [tap_stream EXCEPT !.xy = <<cx, cy>>]
  /\ onclick(cx, cy)
  /\ xmin' = cx - buffer /\ xmax' = cx + buffer
  /\ ymin' = cy - buffer /\ ymax' = cy + buffer
  /\ UNCHANGED <<pcA, varsLoadA, varsNdviA, buffer, bounding_box, varsGridA,
                 varsRegridA, varsCoarseA, varsB>>

\* A click on the plot at (cx, cy): the stream takes the position of the tap
\* and calls its subscriber with it.
Tap(cx, cy) ==
  /\ tap_stream.subscribed
  /\ tap_stream' = [tap_stream EXCEPT !.xy = <<cx, cy>>]
  /\ onclick(cx, cy)
  /\ UNCHANGED <<pcA, varsLoadA, varsNdviA, varsRoiA, varsGridA, varsRegridA,
                 varsCoarseA, varsB>>

\* The clicks of a run that follows the text: the reader clicks on the plot,
\* then runs the cells below it.
ClickBeforeRoi ==
  /\ pcA = "roi"
  /\ \E cx, cy \in 0..MaxCoord : Tap(cx, cy)

\* The clicks of a reader who goes back to the plot after the cells that
\* compute the box have run.
ClickLater ==
  /\ pcA \in {"bounding_box", "grid"}
  /\ \E cx, cy \in 0..MaxCoord : Tap(cx, cy)

\* A mutant of SetBox: the box is clipped to the extent of NDVI_2017.
SetBoxClipped ==
  /\ pcA = "roi"
  /\ \E b \in 1..MaxBuffer :
       LET lox == NDVI_2017.x[1]
           hix == NDVI_2017.x[Len(NDVI_2017.x)]
       IN  /\ buffer' = b
           /\ xmin' = IF center.x - b < lox THEN lox ELSE center.x - b
           /\ xmax' = IF center.x + b > hix THEN hix ELSE center.x + b
           /\ ymin' = center.y - b
           /\ ymax' = center.y + b
  /\ pcA' = "bounding_box"
  /\ UNCHANGED <<varsLoadA, varsNdviA, center, tap_stream, bounding_box,
                 varsGridA, varsRegridA, varsCoarseA, varsB>>

\* buffer = 1.5e4; xmin = center['x'] - buffer; ...  The buffer is a literal
\* of the cell; the model draws it from 1..MaxBuffer.
SetBox ==
  /\ pcA = "roi"
  /\ \E b \in 1..MaxBuffer :
       /\ buffer' = b
       /\ xmin' = center.x - b
       /\ xmax' = center.x + b
       /\ ymin' = center.y - b
       /\ ymax' = center.y + b
  /\ pcA' = "bounding_box"
  /\ UNCHANGED <<varsLoadA, varsNdviA, center, tap_stream, bounding_box,
                 varsGridA, varsRegridA, varsCoarseA, varsB>>

\* bounding_box = [(xmin, ymin), (xmin, ymax), (xmax, ymax), (xmax, ymin)]
SetBoundingBox ==
  /\ pcA = "bounding_box"
  /\ bounding_box' = << <<xmin, ymin>>, <<xmin, ymax>>, <<xmax, ymax>>,
                        <<xmax, ymin>> >>
  /\ pcA' = "grid"
  /\ UNCHANGED <<varsLoadA, varsNdviA, center, tap_stream, buffer, xmin, xmax,
                 ymin, ymax, varsGridA, varsRegridA, varsCoarseA, varsB>>

\* res = 200; x = np.arange(xmin, xmax, res); y = np.arange(ymin, ymax, res)
BuildGrid ==
  /\ pcA = "grid"
  /\ \E r \in 1..MaxRes :
       /\ res' = r
       /\ x' = arange(xmin, xmax, r)
       /\ y' = arange(ymin, ymax, r)
  /\ pcA' = "interp"
  /\ UNCHANGED <<varsLoadA, varsNdviA, center, tap_stream, varsRoiA,
                 varsRegridA, varsCoarseA, varsB>>

\* NDVI_2017_regridded = NDVI_2017.interp(x=x, y=y), and NDVI_1988_regridded.
Regrid ==
  /\ pcA = "interp"
  /\ NDVI_2017_regridded' = interp(NDVI_2017, x, y)
  /\ NDVI_1988_regridded' = interp(NDVI_1988, x, y)
  /\ pcA' = "dataset"
  /\ UNCHANGED <<varsLoadA, varsNdviA, center, tap_stream, varsRoiA, varsGridA,
                 ds_regridded, diff_regridded, varsCoarseA, varsB>>

\* ds_regridded = xr.Dataset({'NDVI_1988': ..., 'NDVI_2017': ...})
Combine ==
  /\ pcA = "dataset"
  /\ ds_regridded' = Dataset(NDVI_1988_regridded, NDVI_2017_regridded)
  /\ pcA' = "diff_regridded"
  /\ UNCHANGED <<varsLoadA, varsNdviA, center, tap_stream, varsRoiA, varsGridA,
                 NDVI_2017_regridded, NDVI_1988_regridded, diff_regridded,
                 varsCoarseA, varsB>>

\* diff_regridded = ds_regridded['NDVI_2017'] - ds_regridded['NDVI_1988']
ComputeDiffRegridded ==
  /\ pcA = "diff_regridded"
  /\ diff_regridded' = Subtract(Variable(ds_regridded, ds_regridded.NDVI_2017),
                                Variable(ds_regridded, ds_regridded.NDVI_1988))
  /\ pcA' = "coarse"
  /\ UNCHANGED <<varsLoadA, varsNdviA, center, tap_stream, varsRoiA, varsGridA,
                 NDVI_2017_regridded, NDVI_1988_regridded, ds_regridded,
                 varsCoarseA, varsB>>

\* res_1000 = 1e3; x_1000 = np.arange(xmin, xmax, res_1000); y_1000 likewise.
BuildCoarseGrid ==
  /\ pcA = "coarse"
  /\ \E r \in 1..MaxCoarse :
       /\ res_1000' = r
       /\ x_1000' = arange(xmin, xmax, r)
       /\ y_1000' = arange(ymin, ymax, r)
  /\ pcA' = "downsample"
  /\ UNCHANGED <<varsLoadA, varsNdviA, center, tap_stream, varsRoiA, varsGridA,
                 varsRegridA, diff_res_1000, varsB>>

\* diff_res_1000 = diff_regridded.groupby_bins('x', x_1000, ...).mean(dim='x')
\*   .groupby_bins('y', y_1000, ...).mean(dim='y').rename(...)
\* The cell fails when no cell falls into any bin of an axis.
downsample(da, xbins, ybins) == MeanOverYBins(MeanOverXBins(da, xbins), ybins)

Downsample ==
  /\ pcA = "downsample"
  /\ IF NoneInBins(diff_regridded.x, x_1000) \/ NoneInBins(diff_regridded.y, y_1000)
     THEN /\ pcA' = "error"
          /\ UNCHANGED diff_res_1000
     ELSE /\ diff_res_1000' = downsample(diff_regridded, x_1000, y_1000)
          /\ pcA' = "done"
  /\ UNCHANGED <<varsLoadA, varsNdviA, center, tap_stream, varsRoiA, varsGridA,
                 varsRegridA, res_1000, x_1000, y_1000, varsB>>

NextRegrid ==
  \/ LoadData
  \/ ComputeNDVI_1988
  \/ ComputeNDVI_2017
  \/ ComputeNDVI_diff
  \/ SetCenter
  \/ ConnectTap
  \/ ClickBeforeRoi
  \/ SetBox
  \/ SetBoundingBox
  \/ BuildGrid
  \/ Regrid
  \/ Combine
  \/ ComputeDiffRegridded
  \/ BuildCoarseGrid
  \/ Downsample

SpecRegrid == Init /\ [][NextRegrid]_vars

\* The runs of the cells down to the bounding box, in which the reader may
\* click on the plot at any time once it is shown.
NextClick ==
  \/ LoadData
  \/ ComputeNDVI_1988
  \/ ComputeNDVI_2017
  \/ ComputeNDVI_diff
  \/ SetCenter
  \/ ConnectTap
  \/ ClickBeforeRoi
  \/ SetBox
  \/ SetBoundingBox
  \/ ClickLater

SpecClick == Init /\ [][NextClick]_vars

\* The first click of a reader who ran the box cell without clicking: it
\* arrives once the box is computed, before or after any of the later cells.
FirstClickAfterBox ==
  /\ pcA \in {"bounding_box", "grid", "interp", "dataset", "diff_regridded",
               "coarse", "downsample", "done", "error"}
  /\ tap_stream.xy = <<>>
  /\ \E cx, cy \in 0..MaxCoord : Tap(cx, cy)

\* The runs of the whole notebook with such a click.
NextLateClick ==
  \/ NextRegrid
  \/ FirstClickAfterBox

SpecLateClick == Init /\ [][NextLateClick]_vars


\* ------------------------------------------- the cells that have been run
AfterNdviDiff == pcA \in {"center", "tap", "roi", "bounding_box", "grid",
                          "interp", "dataset", "diff_regridded", "coarse",
                          "downsample", "done", "error"}
AfterGrid == pcA \in {"interp", "dataset", "diff_regridded", "coarse",
                      "downsample", "done", "error"}
AfterRegrid == pcA \in {"dataset", "diff_regridded", "coarse", "downsample",
                        "done", "error"}
AfterDiffRegridded == pcA \in {"coarse", "downsample", "done", "error"}

\* Every element of the coordinate sequence cs starts at lo, steps by r and
\* stays in [lo, hi).
GridWithin(cs, lo, hi, r) ==
  /\ Len(cs) >= 1
  /\ cs[1] = lo
  /\ \A i \in 1..(Len(cs) - 1) : cs[i + 1] - cs[i] = r
  /\ \A i \in DOMAIN cs : lo <= cs[i] /\ cs[i] < hi

C4_SharedGrid ==
  /\ AfterRegrid =>
       /\ NDVI_2017_regridded.x = x /\ NDVI_2017_regridded.y = y
       /\ NDVI_1988_regridded.x = x /\ NDVI_1988_regridded.y = y
  /\ AfterDiffRegridded =>
       /\ diff_regridded.x = x /\ diff_regridded.y = y
       /\ Cardinality(Cells(diff_regridded)) = Len(x) * Len(y)
       /\ \A c \in Cells(diff_regridded) :
            c[1] \in DOMAIN diff_regridded.v[c[2]]

C4_Witness ==
  /\ pcA = "coarse"
  /\ Len(x) >= 2 /\ Len(y) >= 2
  /\ x # NDVI_2017.x /\ x # NDVI_1988.x
  /\ Cardinality(Cells(diff_regridded)) = Len(x) * Len(y)

\* C5: the difference of the two rasters on their native grids is defined
\* exactly on the coordinates present in both: a coordinate of only one raster
\* is absent from the result, every coordinate of both is present (once).
C5_InnerJoin ==
  AfterNdviDiff =>
    /\ Range(NDVI_diff.x) = Range(NDVI_2017.x) \cap Range(NDVI_1988.x)
    /\ Range(NDVI_diff.y) = Range(NDVI_2017.y) \cap Range(NDVI_1988.y)
    /\ Len(NDVI_diff.x) = Cardinality(Range(NDVI_diff.x))
    /\ Len(NDVI_diff.y) = Cardinality(Range(NDVI_diff.y))
    /\ \A c \in Cells(NDVI_diff) :
         NDVI_diff.v[c[2]][c[1]] =
           FSub(At(NDVI_2017, NDVI_diff.x[c[1]], NDVI_diff.y[c[2]]),
                At(NDVI_1988, NDVI_diff.x[c[1]], NDVI_diff.y[c[2]]))

\* The grids differ: each raster has a coordinate the other lacks, and the
\* result is smaller than both.
C5_Witness ==
  /\ pcA = "center"
  /\ Range(NDVI_2017.x) \ Range(NDVI_1988.x) # {}
  /\ Range(NDVI_1988.x) \ Range(NDVI_2017.x) # {}
  /\ Len(NDVI_diff.x) >= 1
  /\ Len(NDVI_diff.x) < Len(NDVI_1988.x)

\* The raster has no missing value.
NoMissing(da) == \A c \in Cells(da) : ~IsNaN(da.v[c[2]][c[1]])

\* The target grid is the raster's own grid.
OnOwnGrid(da) == x = da.x /\ y = da.y

\* C6, as stated: interpolating a raster onto its own x and y returns the same
\* coordinates and the same value at every cell.
C6_Original ==
  AfterRegrid =>
    /\ OnOwnGrid(NDVI_2017) => NDVI_2017_regridded = NDVI_2017
    /\ OnOwnGrid(NDVI_1988) => NDVI_1988_regridded = NDVI_1988

\* C6, amended: interpolating a raster without missing values onto its own x
\* and y returns the same coordinates and the same value at every cell.
C6_Idempotent ==
  AfterRegrid =>
    /\ (OnOwnGrid(NDVI_2017) /\ NoMissing(NDVI_2017))
         => NDVI_2017_regridded = NDVI_2017
    /\ (OnOwnGrid(NDVI_1988) /\ NoMissing(NDVI_1988))
         => NDVI_1988_regridded = NDVI_1988

C6_Witness ==
  /\ pcA = "dataset"
  /\ OnOwnGrid(NDVI_1988) /\ NoMissing(NDVI_1988)
  /\ NDVI_1988_regridded = NDVI_1988
  /\ \E c, d \in Cells(NDVI_1988) :
       NDVI_1988.v[c[2]][c[1]] # NDVI_1988.v[d[2]][d[1]]

\* The coordinate t lies outside the range of the coordinate sequence cs.
OutsideRange(cs, t) ==
  \/ \A i \in DOMAIN cs : t < cs[i]
  \/ \A i \in DOMAIN cs : t > cs[i]

\* Every target cell outside the coordinate range of src is missing in out.
MissingOutside(src, out) ==
  \A c \in Cells(out) :
    (OutsideRange(src.x, out.x[c[1]]) \/ OutsideRange(src.y, out.y[c[2]]))
      => IsNaN(out.v[c[2]][c[1]])

\* C7: with a box partly or wholly outside the source raster the interpolation
\* completes, and every target cell whose x or y is outside the source's
\* coordinate range is missing: nothing is extrapolated.
C7_NoExtrapolation ==
  /\ pcA = "dataset" => Cardinality(Cells(NDVI_2017_regridded)) = Len(x) * Len(y)
  /\ AfterRegrid =>
       /\ MissingOutside(NDVI_2017, NDVI_2017_regridded)
       /\ MissingOutside(NDVI_1988, NDVI_1988_regridded)

\* The box lies partly outside: one target cell is outside the source range
\* and missing, another is inside and has a value.
C7_Witness ==
  /\ pcA = "dataset"
  /\ \E c, d \in Cells(NDVI_2017_regridded) :
       /\ OutsideRange(NDVI_2017.x, x[c[1]])
       /\ IsNaN(NDVI_2017_regridded.v[c[2]][c[1]])
       /\ ~IsNaN(NDVI_2017_regridded.v[d[2]][d[1]])

\* C8: the regridded difference is missing at a cell if and only if at least
\* one of the two regridded rasters is missing there.
C8_NaNPropagates ==
  AfterDiffRegridded =>
    \A c \in Cells(diff_regridded) :
      IsNaN(diff_regridded.v[c[2]][c[1]])
        <=> (IsNaN(NDVI_2017_regridded.v[c[2]][c[1]])
             \/ IsNaN(NDVI_1988_regridded.v[c[2]][c[1]]))

\* One cell is missing in exactly one raster, another in neither.
C8_Witness ==
  /\ pcA = "coarse"
  /\ \E c, d \in Cells(diff_regridded) :
       /\ IsNaN(NDVI_2017_regridded.v[c[2]][c[1]])
       /\ ~IsNaN(NDVI_1988_regridded.v[c[2]][c[1]])
       /\ IsNaN(diff_regridded.v[c[2]][c[1]])
       /\ ~IsNaN(diff_regridded.v[d[2]][d[1]])


\* The coordinate t lies within the span of the coarse coordinates.
InSpan(bins, t) == Len(bins) >= 1 /\ bins[1] <= t /\ t <= bins[Len(bins)]

\* The bins of an axis that cell i of the coordinate sequence cs is put into.
BinsOf(cs, bins, i) == {k \in Bins(bins) : i \in BinMembers(cs, bins, k)}

\* Every cell of cs within the span of the coarse coordinates is in exactly
\* one bin.
AssignsSpan(cs, bins) ==
  \A i \in DOMAIN cs : InSpan(bins, cs[i]) => Cardinality(BinsOf(cs, bins, i)) = 1

\* The fine cells <<i, j>> put into output cell <<k, l>>.
Block(k, l) ==
  BinMembers(diff_regridded.x, x_1000, k) \X BinMembers(diff_regridded.y, y_1000, l)

\* Every output cell holds the mean of the fine cells of its block (of those
\* that have a value).
BlockMeans ==
  \A k \in Bins(x_1000), l \in Bins(y_1000) :
    diff_res_1000.v[l][k] =
      NanMean(Block(k, l),
              [c \in Block(k, l) |-> diff_regridded.v[c[2]][c[1]]])

\* Every output cell is labeled with the left edge of its bin.
LeftLabels ==
  /\ Len(diff_res_1000.x) = Len(x_1000) - 1
  /\ Len(diff_res_1000.y) = Len(y_1000) - 1
  /\ \A k \in Bins(x_1000) : diff_res_1000.x[k] = x_1000[k]
  /\ \A l \in Bins(y_1000) : diff_res_1000.y[l] = y_1000[l]

\* C9: the downsampler puts every fine cell within the span of the coarse
\* coordinates into exactly one bin between consecutive coarse coordinates;
\* every output cell holds the mean of the fine cells of its bin and is
\* labeled with the left edge of its bin.
C9_Original ==
  pcA = "done" =>
    /\ AssignsSpan(diff_regridded.x, x_1000)
    /\ AssignsSpan(diff_regridded.y, y_1000)
    /\ BlockMeans
    /\ LeftLabels


\* ============================ notebooks/3.0_Spectral_Clustering_PC.ipynb
\* items = search.get_all_items(): the catalog answers with some sequence of
\* scenes.
Search_2017 ==
  /\ pcB = "search_2017"
  /\ items' \in ItemSeqs
  /\ pcB' = "select_2017"
  /\ UNCHANGED <<item, da_2017, da_1988, varsMatrixB, varsFitB, varsImageB,
                 varsWaterB, varsA>>

\* items[1]: the second scene of the result; IndexError when there is none.
HasSecond(q) == Len(q) >= 2
Second(q) == q[2]

\* A cell that raises: the exception is not caught, the run stops at this
\* cell and every name keeps the value it had.
Raise ==
  /\ pcB' = "error"
  /\ UNCHANGED <<varsSceneB, varsMatrixB, varsFitB, varsImageB, varsWaterB,
                 varsA>>

\* A mutant of Select_2017: the IndexError is swallowed and the run goes on.
Select_2017Swallowed ==
  /\ pcB = "select_2017"
  /\ item' = IF HasSecond(items) THEN Second(items) ELSE item
  /\ pcB' = "load_2017"
  /\ UNCHANGED <<items, da_2017, da_1988, varsMatrixB, varsFitB, varsImageB,
                 varsWaterB, varsA>>

\* A mutant of Select_2017: the first item is taken (items[0]).
Select_2017First ==
  /\ pcB = "select_2017"
  /\ IF Len(items) >= 1
     THEN item' = items[1] /\ pcB' = "load_2017"
     ELSE item' = item /\ pcB' = "error"
  /\ UNCHANGED <<items, da_2017, da_1988, varsMatrixB, varsFitB, varsImageB,
                 varsWaterB, varsA>>

\* item = items[1]
Select_2017 ==
  /\ pcB = "select_2017"
  /\ IF HasSecond(items)
     THEN item' = Second(items) /\ pcB' = "load_2017"
     ELSE item' = item /\ pcB' = "error"
  /\ UNCHANGED <<items, da_2017, da_1988, varsMatrixB, varsFitB, varsImageB,
                 varsWaterB, varsA>>

\* ds_2017 = odc.stac.stac_load([item], ...).isel(time=0);
\* da_2017 = ds_2017.to_array(dim="band")
Load_2017 ==
  /\ pcB = "load_2017"
  /\ da_2017' = StacLoad(item)
  /\ pcB' = "flatten_2017"
  /\ UNCHANGED <<items, item, da_1988, varsMatrixB, varsFitB, varsImageB,
                 varsWaterB, varsA>>

\* flattened_xda = da_2017.stack(z=("x", "y"));
\* flattened_t_xda = flattened_xda.transpose("z", "band")
Flatten_2017 ==
  /\ pcB = "flatten_2017"
  /\ flattened_xda' = stack(da_2017)
  /\ flattened_t_xda' = transpose(stack(da_2017))
  /\ pcB' = "standardize_2017"
  /\ UNCHANGED <<varsSceneB, rescaled_xda, varsFitB, varsImageB, varsWaterB,
                 varsA>>

\* rescaled_xda = (flattened_t_xda - flattened_t_xda.mean())
\*                / flattened_t_xda.std()
Standardize_2017 ==
  /\ pcB = "standardize_2017"
  /\ rescaled_xda' = Standardize(flattened_t_xda)
  /\ pcB' = "client"
  /\ UNCHANGED <<varsSceneB, flattened_xda, flattened_t_xda, varsFitB,
                 varsImageB, varsWaterB, varsA>>

\* client = Client(processes=False): a new client; clients are numbered in
\* the order of their creation, and 0 is the unbound name.
CreateClient ==
  /\ pcB = "client"
  /\ client' = client + 1
  /\ pcB' = "persist_2017"
  /\ UNCHANGED <<varsSceneB, varsMatrixB, X, clf, labels, varsImageB,
                 varsWaterB, varsA>>

\* X = client.persist(rescaled_xda).  The work is done by the client's
\* workers; when the client errors the call raises.
Persist_2017 ==
  /\ pcB = "persist_2017"
  /\ client > 0
  /\ \/ /\ X' = persist(client, rescaled_xda)
        /\ pcB' = "clf_2017"
        /\ UNCHANGED <<varsSceneB, varsMatrixB, client, clf, labels,
                       varsImageB, varsWaterB, varsA>>
     \/ Raise

\* clf = SpectralClustering(n_clusters=4, random_state=0, ...)
NewClf_2017 ==
  /\ pcB = "clf_2017"
  /\ clf' = NewClf
  /\ pcB' = "fit_2017"
  /\ UNCHANGED <<varsSceneB, varsMatrixB, client, X, labels, varsImageB,
                 varsWaterB, varsA>>

\* clf.fit(X): the fitted model holds one label per row of X.
fit(model, m) ==
  {[model EXCEPT !.fitted = TRUE, !.labels_ = l] :
     l \in LabelVectors(Len(m.z), model.n_clusters)}

\* A mutant of Fit_2017: a failed fit is swallowed and leaves a model that
\* counts as fitted, without labels.
Fit_2017Swallowed ==
  /\ pcB = "fit_2017"
  /\ \/ clf' \in fit(clf, X)
     \/ clf' = [clf EXCEPT !.fitted = TRUE]
  /\ pcB' = "labels_2017"
  /\ UNCHANGED <<varsSceneB, varsMatrixB, client, X, labels, varsImageB,
                 varsWaterB, varsA>>

\* %time clf.fit(X)
Fit_2017 ==
  /\ pcB = "fit_2017"
  /\ \/ /\ clf' \in fit(clf, X)
        /\ pcB' = "labels_2017"
        /\ UNCHANGED <<varsSceneB, varsMatrixB, client, X, labels,
                       varsImageB, varsWaterB, varsA>>
     \/ Raise

\* labels = clf.assign_labels_.labels_.compute()
Labels_2017 ==
  /\ pcB = "labels_2017"
  /\ clf.fitted
  /\ \/ /\ labels' = clf.labels_
        /\ pcB' = "template_2017"
        /\ UNCHANGED <<varsSceneB, varsMatrixB, client, X, clf, varsImageB,
                       varsWaterB, varsA>>
     \/ Raise

\* template = flattened_t_xda[:, 0]; output_array = template.copy(data=labels)
Template_2017 ==
  /\ pcB = "template_2017"
  /\ template' = Column(flattened_t_xda, 1)
  /\ output_array' = CopyData(Column(flattened_t_xda, 1), labels)
  /\ pcB' = "unstack_2017"
  /\ UNCHANGED <<varsSceneB, varsMatrixB, varsFitB, unstacked_2017,
                 unstacked_1988, varsWaterB, varsA>>

\* unstacked_2017 = output_array.unstack()
Unstack_2017 ==
  /\ pcB = "unstack_2017"
  /\ unstacked_2017' = unstack(output_array)
  /\ pcB' = "search_1988"
  /\ UNCHANGED <<varsSceneB, varsMatrixB, varsFitB, template, output_array,
                 unstacked_1988, varsWaterB, varsA>>

\* items = search.get_all_items(); item = items[1], in one cell.
Search_1988 ==
  /\ pcB = "search_1988"
  /\ \E q \in ItemSeqs :
       /\ items' = q
       /\ IF HasSecond(q)
          THEN item' = Second(q) /\ pcB' = "load_1988"
          ELSE item' = item /\ pcB' = "error"
  /\ UNCHANGED <<da_2017, da_1988, varsMatrixB, varsFitB, varsImageB,
                 varsWaterB, varsA>>

\* ds_1988 = odc.stac.stac_load([item], ...); da_1988 = ds_1988.to_array(...)
Load_1988 ==
  /\ pcB = "load_1988"
  /\ da_1988' = StacLoad(item)
  /\ pcB' = "reshape_1988"
  /\ UNCHANGED <<items, item, da_2017, varsMatrixB, varsFitB, varsImageB,
                 varsWaterB, varsA>>

\* The flatten and the standardize steps of 1988, in one cell.
Reshape_1988 ==
  /\ pcB = "reshape_1988"
  /\ flattened_xda' = stack(da_1988)
  /\ flattened_t_xda' = transpose(stack(da_1988))
  /\ rescaled_xda' = Standardize(transpose(stack(da_1988)))
  /\ pcB' = "persist_1988"
  /\ UNCHANGED <<varsSceneB, varsFitB, varsImageB, varsWaterB, varsA>>

\* A mutant of Persist_1988: the cell makes a client of its own.
Persist_1988NewClient ==
  /\ pcB = "persist_1988"
  /\ client' = client + 1
  /\ X' = persist(client + 1, rescaled_xda)
  /\ clf' = NewClf
  /\ pcB' = "fit_1988"
  /\ UNCHANGED <<varsSceneB, varsMatrixB, labels, varsImageB, varsWaterB,
                 varsA>>

\* X = client.persist(rescaled_xda); clf = SpectralClustering(...)
Persist_1988 ==
  /\ pcB = "persist_1988"
  /\ client > 0
  /\ \/ /\ X' = persist(client, rescaled_xda)
        /\ clf' = NewClf
        /\ pcB' = "fit_1988"
        /\ UNCHANGED <<varsSceneB, varsMatrixB, client, labels, varsImageB,
                       varsWaterB, varsA>>
     \/ Raise

\* %time clf.fit(X)
Fit_1988 ==
  /\ pcB = "fit_1988"
  /\ \/ /\ clf' \in fit(clf, X)
        /\ pcB' = "labels_1988"
        /\ UNCHANGED <<varsSceneB, varsMatrixB, client, X, labels,
                       varsImageB, varsWaterB, varsA>>
     \/ Raise

\* labels = clf.assign_labels_.labels_.compute()
Labels_1988 ==
  /\ pcB = "labels_1988"
  /\ clf.fitted
  /\ \/ /\ labels' = clf.labels_
        /\ pcB' = "unstack_1988"
        /\ UNCHANGED <<varsSceneB, varsMatrixB, client, X, clf, varsImageB,
                       varsWaterB, varsA>>
     \/ Raise

\* A mutant of Unstack_1988: the cell, copied from 2017's, still assigns
\* unstacked_2017 as well.
Unstack_1988Overwrites ==
  /\ pcB = "unstack_1988"
  /\ template' = Column(flattened_t_xda, 1)
  /\ output_array' = CopyData(Column(flattened_t_xda, 1), labels)
  /\ unstacked_2017' = unstack(CopyData(Column(flattened_t_xda, 1), labels))
  /\ unstacked_1988' = unstack(CopyData(Column(flattened_t_xda, 1), labels))
  /\ pcB' = "mask"
  /\ UNCHANGED <<varsSceneB, varsMatrixB, varsFitB, varsWaterB, varsA>>

\* template = flattened_t_xda[:, 0]; output_array = template.copy(data=labels);
\* unstacked_1988 = output_array.unstack()
Unstack_1988 ==
  /\ pcB = "unstack_1988"
  /\ template' = Column(flattened_t_xda, 1)
  /\ output_array' = CopyData(Column(flattened_t_xda, 1), labels)
  /\ unstacked_1988' = unstack(CopyData(Column(flattened_t_xda, 1), labels))
  /\ pcB' = "mask"
  /\ UNCHANGED <<varsSceneB, varsMatrixB, varsFitB, unstacked_2017, varsWaterB,
                 varsA>>

\* water_cluster_1988 = 2; water_cluster_2017 = 2 (the reader sets them to the
\* label seen over the lake in each image);
\* water_1988 = unstacked_1988.where(unstacked_1988 == water_cluster_1988, 0),
\* and water_2017.
Mask ==
  /\ pcB = "mask"
  /\ \E t88, t17 \in 0..(n_clusters - 1) :
       /\ water_cluster_1988' = t88
       /\ water_cluster_2017' = t17
       /\ water_1988' = WhereEqualElseZero(unstacked_1988, t88)
       /\ water_2017' = WhereEqualElseZero(unstacked_2017, t17)
  /\ pcB' = "water_diff"
  /\ UNCHANGED <<varsSceneB, varsMatrixB, varsFitB, varsImageB, water_diff,
                 varsA>>

\* water_diff = water_1988 - water_2017
WaterDiff ==
  /\ pcB = "water_diff"
  /\ water_diff' = Subtract(water_1988, water_2017)
  /\ pcB' = "done"
  /\ UNCHANGED <<varsSceneB, varsMatrixB, varsFitB, varsImageB,
                 water_cluster_1988, water_cluster_2017, water_1988,
                 water_2017, varsA>>

NextCluster ==
  \/ Search_2017
  \/ Select_2017
  \/ Load_2017
  \/ Flatten_2017
  \/ Standardize_2017
  \/ CreateClient
  \/ Persist_2017
  \/ NewClf_2017
  \/ Fit_2017
  \/ Labels_2017
  \/ Template_2017
  \/ Unstack_2017
  \/ Search_1988
  \/ Load_1988
  \/ Reshape_1988
  \/ Persist_1988
  \/ Fit_1988
  \/ Labels_1988
  \/ Unstack_1988
  \/ Mask
  \/ WaterDiff

SpecCluster == Init /\ [][NextCluster]_vars


\* --------------------------------------------- the clustering notebook's
\* cells that have been run
Flattened_2017 == pcB \in {"standardize_2017", "client", "persist_2017",
                           "clf_2017", "fit_2017", "labels_2017",
                           "template_2017", "unstack_2017", "search_1988",
                           "load_1988", "reshape_1988"}
Flattened_1988 == pcB \in {"persist_1988", "fit_1988", "labels_1988",
                           "unstack_1988", "mask", "water_diff", "done"}

\* unflatten(flatten(R)) for the raster R that flattened_t_xda was made from:
\* band by band, the unstacked column has R's x and y labels, each once, and
\* R's value at every (band, x, y).
RoundTrip(R) ==
  /\ Len(flattened_t_xda.z) = Len(R.x) * Len(R.y)
  /\ \A b \in DOMAIN R.band :
       LET u == unstack(Column(flattened_t_xda, b))
       IN  /\ Range(u.x) = Range(R.x) /\ Len(u.x) = Len(R.x)
           /\ Range(u.y) = Range(R.y) /\ Len(u.y) = Len(R.y)
           /\ \A c \in Cells(R) :
                At(u, R.x[c[1]], R.y[c[2]]) = R.v[b][c[2]][c[1]]

\* C1: flattening a raster (stack x and y into z, transpose to (z, band)) and
\* unstacking z reproduces the raster's value at every (band, x, y) and its x
\* and y labels: no cell is lost, duplicated or moved.
C1_RoundTrip ==
  /\ Flattened_2017 => RoundTrip(da_2017)
  /\ Flattened_1988 => RoundTrip(da_1988)

\* A flattened raster whose cells differ, more columns than rows.
C1_Witness ==
  /\ pcB = "standardize_2017"
  /\ Len(flattened_t_xda.z) = Len(da_2017.x) * Len(da_2017.y)
  /\ Len(da_2017.x) # Len(da_2017.y)
  /\ \E c, d \in Cells(da_2017) : da_2017.v[1][c[2]][c[1]] # da_2017.v[1][d[2]][d[1]]
  /\ unstack(Column(flattened_t_xda, 1)).x = da_2017.x

\* mask(R, t) is nonzero exactly at the cells where R == t.
MaskOf(mask, R, t) ==
  \A c \in Cells(R) : (mask.v[c[2]][c[1]] # Num(0)) <=> (R.v[c[2]][c[1]] = Num(t))

\* C2: for any label raster R and target label t in 0..3, R.where(R == t, 0)
\* is nonzero exactly at the cells where R == t and zero at every other cell.
C2_Original ==
  pcB \in {"water_diff", "done"} =>
    /\ MaskOf(water_1988, unstacked_1988, water_cluster_1988)
    /\ MaskOf(water_2017, unstacked_2017, water_cluster_2017)

\* The scene whose samples were clustered last.
Clustered == IF Flattened_1988 THEN da_1988 ELSE da_2017

Rescaled == pcB \in {"client", "persist_2017", "clf_2017", "fit_2017",
                     "labels_2017", "template_2017", "unstack_2017",
                     "search_1988", "load_1988", "reshape_1988",
                     "persist_1988", "fit_1988", "labels_1988",
                     "unstack_1988", "mask", "water_diff", "done"}

\* The values of the sample matrix, by element.
Values(m) == [e \in Elements(m) |-> m.v[e[1]][e[2]]]

\* What was subtracted from element e.
Shift(e) == FSub(flattened_t_xda.v[e[1]][e[2]], rescaled_xda.dev[e[1]][e[2]])

\* The squares of the deviations of the standardized matrix r, by element.
SquaredDev(r) ==
  [e \in (DOMAIN r.z) \X (DOMAIN r.band) |->
     FMul(r.dev[e[1]][e[2]], r.dev[e[1]][e[2]])]

Count(m) == Num(Cardinality(Elements(m)))

\* C12: the standardizer subtracts one scalar, the mean over all samples and
\* bands jointly, from every element, and divides every element by one
\* scalar, the standard deviation over all samples and bands jointly.
C12_GlobalStatistics ==
  Rescaled =>
    /\ \A e, f \in Elements(flattened_t_xda) : Shift(e) = Shift(f)
    /\ \A e \in Elements(flattened_t_xda) :
         FMul(Shift(e), Count(flattened_t_xda))
           = SumOver(Elements(flattened_t_xda), Values(flattened_t_xda))
    /\ FMul(rescaled_xda.var, Count(flattened_t_xda))
         = SumOver(Elements(flattened_t_xda), SquaredDev(rescaled_xda))

\* A standardized matrix whose two bands have different means.
C12_Witness ==
  /\ pcB = "client"
  /\ rescaled_xda.var # Num(0)
  /\ SumOver(DOMAIN flattened_t_xda.z,
             [k \in DOMAIN flattened_t_xda.z |-> flattened_t_xda.v[k][1]])
       # SumOver(DOMAIN flattened_t_xda.z,
                 [k \in DOMAIN flattened_t_xda.z |-> flattened_t_xda.v[k][2]])

AllEqual(m) == \A e, f \in Elements(m) : m.v[e[1]][e[2]] = m.v[f[1]][f[2]]

\* C13: for a sample matrix whose values are not all equal, the standardized
\* matrix dev / sqrt(var) has mean 0 (the deviations sum to zero and var is
\* not zero) and standard deviation 1 (the mean squared deviation is var),
\* over all samples and bands jointly.
C13_ZeroMeanUnitStd ==
  (Rescaled /\ ~AllEqual(flattened_t_xda)) =>
    /\ rescaled_xda.var # Num(0) /\ ~IsNaN(rescaled_xda.var)
    /\ SumOver(Elements(flattened_t_xda),
               [e \in Elements(flattened_t_xda) |-> rescaled_xda.dev[e[1]][e[2]]])
         = Num(0)
    /\ FDiv(SumOver(Elements(flattened_t_xda), SquaredDev(rescaled_xda)),
            Count(flattened_t_xda))
         = rescaled_xda.var

\* The 1988 matrix standardized, its values not all equal.
C13_Witness ==
  /\ pcB = "persist_1988"
  /\ ~AllEqual(flattened_t_xda)
  /\ rescaled_xda.var # Num(0)

\* The standardize step is about to run on a matrix whose values are all
\* equal (its standard deviation is zero).
ZeroStd ==
  \/ pcB = "standardize_2017" /\ Variance(flattened_t_xda) = Num(0)
  \/ pcB = "reshape_1988" /\ Variance(transpose(stack(da_1988))) = Num(0)

\* C14 as stated: with a zero standard deviation the standardize step ends in
\* an error and binds no standardized matrix.
C14_Original ==
  [][ZeroStd => (pcB' = "error" /\ rescaled_xda' = rescaled_xda)]_vars

\* C14, amended: with a zero standard deviation the standardize step
\* completes without an error and binds a matrix of the same shape whose
\* every element is NaN (0/0).
C14_ZeroStdGivesNaN ==
  [][ZeroStd =>
       /\ pcB' # "error"
       /\ rescaled_xda'.z = flattened_t_xda'.z
       /\ \A e \in Elements(flattened_t_xda') :
            IsNaNElement(rescaled_xda', e[1], e[2])]_vars

\* A uniform matrix has been standardized.
C14_Witness ==
  /\ pcB = "client"
  /\ AllEqual(flattened_t_xda)
  /\ Len(rescaled_xda.z) = Len(ClusterX) * Len(ClusterY)
  /\ \A e \in Elements(flattened_t_xda) : IsNaNElement(rescaled_xda, e[1], e[2])


\* ------------------------------------------- errors, the client, failures
\* No cell runs after a cell that raised.
NothingAfterError == [][pcB # "error"]_vars

\* C15: when the search returns no scene, selecting the scene raises; the
\* error is not caught, and no later cell (load, flatten, standardize,
\* cluster) runs for that time point.
C15_EmptySearchHalts ==
  /\ [][(pcB = "select_2017" /\ items = <<>>) =>
          (pcB' = "error" /\ UNCHANGED <<item, da_2017, varsMatrixB, varsFitB>>)]_vars
  /\ [][(pcB = "search_1988" /\ items' = <<>>) =>
          (pcB' = "error" /\ UNCHANGED <<item, da_1988, varsMatrixB, varsFitB>>)]_vars
  /\ NothingAfterError

\* The 2017 search came back empty and the run has stopped before the load.
C15_Witness ==
  /\ pcB = "error"
  /\ items = <<>>
  /\ da_2017 = NoScene
  /\ flattened_t_xda = NoMatrix

\* The cells in which the client works for the 2017 run, and for the 1988 run.
Uses_2017 == pcB \in {"persist_2017", "fit_2017", "labels_2017"}
Uses_1988 == pcB \in {"persist_1988", "fit_1988", "labels_1988"}

\* C19: the client is created exactly once, before the first persist; the
\* same client persists the matrix of 2017 and of 1988; while it works for
\* the 2017 run the 1988 run has not begun, and while it works for the 1988
\* run the 2017 run is complete.
C19_OneClient ==
  /\ [][client' # client => (pcB = "client" /\ client = 0)]_vars
  /\ [][X' # X => (client = 1 /\ client' = client /\ X'.client = client)]_vars
  /\ [](Uses_2017 => (client = 1 /\ da_1988 = NoScene))
  /\ [](Uses_1988 => (client = 1 /\ unstacked_2017 # NoArray))

\* The 1988 matrix has been persisted by the client that persisted 2017's.
C19_Witness ==
  /\ pcB = "fit_1988"
  /\ client = 1
  /\ X = persist(1, Standardize(transpose(stack(da_1988))))
  /\ unstacked_2017 # NoArray

\* The names bound from the persist cell on.
varsDownstreamB == <<X, clf, labels, varsImageB, varsWaterB>>

Water_1988(cx, cy) == At(unstacked_1988, cx, cy) = Num(water_cluster_1988)
Water_2017(cx, cy) == At(unstacked_2017, cx, cy) = Num(water_cluster_2017)

\* The coordinates of the cells of water_diff.
DiffCells == {<<water_diff.x[c[1]], water_diff.y[c[2]]>> : c \in Cells(water_diff)}

\* C17 as stated: with the water labels of the notebook (2 and 2), every cell
\* of water_diff that is water in 1988 and not water in 2017 holds 1.
C17_Original ==
  (pcB = "done" /\ water_cluster_1988 = 2 /\ water_cluster_2017 = 2) =>
    \A c \in DiffCells :
      (Water_1988(c[1], c[2]) /\ ~Water_2017(c[1], c[2]))
        => At(water_diff, c[1], c[2]) = Num(1)

\* C18 as stated: for any pair of water labels, water_diff is nonzero exactly
\* at the cells that are water in one year and not in the other.
C18_Original ==
  pcB = "done" =>
    \A c \in DiffCells :
      (At(water_diff, c[1], c[2]) # Num(0))
        <=> (Water_1988(c[1], c[2]) # Water_2017(c[1], c[2]))

\* The same, for the pairs of labels that C2 does not already rule out: two
\* different nonzero labels.
C18_DifferentLabels ==
  (pcB = "done" /\ water_cluster_1988 = 1 /\ water_cluster_2017 = 2) =>
    \A c \in DiffCells :
      (At(water_diff, c[1], c[2]) # Num(0))
        <=> (Water_1988(c[1], c[2]) # Water_2017(c[1], c[2]))

\* When the two labels are the same nonzero label t, water_diff is t where
\* water was lost, -t where it was gained and 0 elsewhere.
WaterDiffSameLabel ==
  (pcB = "done" /\ water_cluster_1988 = water_cluster_2017
     /\ water_cluster_1988 # 0) =>
    \A c \in DiffCells :
      At(water_diff, c[1], c[2]) =
        IF Water_1988(c[1], c[2]) /\ ~Water_2017(c[1], c[2])
          THEN Num(water_cluster_1988)
        ELSE IF Water_2017(c[1], c[2]) /\ ~Water_1988(c[1], c[2])
          THEN Num(0 - water_cluster_1988)
        ELSE Num(0)


\* ------------------------------------------------------------ the clicks
\* C16: once there has been a click, center['x'] and center['y'] are the x
\* and the y of the most recent one; until then, from the cell that sets it,
\* center is the transformed longitude/latitude.
C16_LastClick ==
  /\ (tap_stream.xy = <<>> /\ pcA \notin {"load", "ndvi_1988", "ndvi_2017",
                                          "ndvi_diff", "center"})
       => center = [x |-> TransformedX, y |-> TransformedY]
  /\ tap_stream.xy # <<>>
       => center = [x |-> tap_stream.xy[1], y |-> tap_stream.xy[2]]

\* A click after the box was computed from an earlier center: x and y both
\* differ from the box's center and from the transformed point.
C16_Witness ==
  /\ pcA = "grid"
  /\ tap_stream.xy # <<>>
  /\ center.x # xmin + buffer /\ center.y # ymin + buffer
  /\ center.x # TransformedX /\ center.y # TransformedY
  /\ center.x # center.y
  /\ xmin + buffer # TransformedX


\* ------------------------------------------------- the region of interest
AfterBox == pcA \in {"bounding_box", "grid", "interp", "dataset",
                     "diff_regridded", "coarse", "downsample", "done", "error"}

\* C21: for any center and the buffer b the box is xmin = cx - b,
\* xmax = cx + b, ymin = cy - b, ymax = cy + b: symmetric about the center,
\* of side 2b on both axes, its corners listed in bounding_box; the cell
\* makes it for every center, whatever the extent of the source raster.
C21_SymmetricBox ==
  /\ [](AfterBox =>
          /\ xmin = center.x - buffer /\ xmax = center.x + buffer
          /\ ymin = center.y - buffer /\ ymax = center.y + buffer
          /\ xmax - xmin = 2 * buffer /\ ymax - ymin = 2 * buffer
          /\ center.x - xmin = xmax - center.x
          /\ center.y - ymin = ymax - center.y)
  /\ []((AfterBox /\ pcA # "bounding_box") =>
          bounding_box = << <<xmin, ymin>>, <<xmin, ymax>>, <<xmax, ymax>>,
                            <<xmax, ymin>> >>)
  /\ [][(pcA = "roi" /\ pcA' # "roi") => pcA' = "bounding_box"]_vars

\* A box that reaches beyond the source raster on both sides of x.
C21_Witness ==
  /\ pcA = "grid"
  /\ xmin < NDVI_2017.x[1]
  /\ xmax > NDVI_2017.x[Len(NDVI_2017.x)]
  /\ center.x # center.y
  /\ Len(bounding_box) = 4


\* -------------------------------------------------------- the downsampler
\* The bins of the edges that hold no coordinate of cs.
EmptyBins(cs, bins) == {k \in Bins(bins) : BinMembers(cs, bins, k) = {}}

\* C22: a coarse bin that holds no fine grid cell is in the output, at its
\* place and under its label, and every output cell of it is NaN.
C22_EmptyBinsKept ==
  pcA = "done" =>
    /\ Len(diff_res_1000.x) = Cardinality(Bins(x_1000))
    /\ Len(diff_res_1000.y) = Cardinality(Bins(y_1000))
    /\ \A k \in EmptyBins(diff_regridded.x, x_1000) :
         /\ diff_res_1000.x[k] = x_1000[k]
         /\ \A l \in DOMAIN diff_res_1000.y : IsNaN(diff_res_1000.v[l][k])
    /\ \A l \in EmptyBins(diff_regridded.y, y_1000) :
         /\ diff_res_1000.y[l] = y_1000[l]
         /\ \A k \in DOMAIN diff_res_1000.x : IsNaN(diff_res_1000.v[l][k])

\* A downsampled raster with an empty bin before a bin that holds a value.
C22_Witness ==
  /\ pcA = "done"
  /\ \E k, m \in Bins(x_1000) :
       /\ k < m
       /\ k \in EmptyBins(diff_regridded.x, x_1000)
       /\ \E l \in DOMAIN diff_res_1000.y : ~IsNaN(diff_res_1000.v[l][m])

\* The coordinates of cs beyond the last edge.
Beyond(cs, bins) == {i \in DOMAIN cs : cs[i] > bins[Len(bins)]}

\* diff_regridded with another value in every cell beyond the last coarse
\* coordinate of x or of y.
Overwritten ==
  LET val(i, j) ==
        IF i \in Beyond(diff_regridded.x, x_1000)
             \/ j \in Beyond(diff_regridded.y, y_1000)
        THEN Num(9) ELSE diff_regridded.v[j][i]
  IN  DataArray(diff_regridded.x, diff_regridded.y, val)

\* C28: for n coarse coordinates on an axis the downsampled raster has n-1
\* cells on it, labeled by the first n-1 coarse coordinates; a fine cell
\* beyond the last coarse coordinate is in no bin, and no output cell depends
\* on its value.
C28_LastEdge ==
  pcA = "done" =>
    /\ Len(diff_res_1000.x) = Len(x_1000) - 1
    /\ Len(diff_res_1000.y) = Len(y_1000) - 1
    /\ diff_res_1000.x = SubSeq(x_1000, 1, Len(x_1000) - 1)
    /\ diff_res_1000.y = SubSeq(y_1000, 1, Len(y_1000) - 1)
    /\ \A i \in Beyond(diff_regridded.x, x_1000) :
         BinsOf(diff_regridded.x, x_1000, i) = {}
    /\ \A j \in Beyond(diff_regridded.y, y_1000) :
         BinsOf(diff_regridded.y, y_1000, j) = {}
    /\ downsample(Overwritten, x_1000, y_1000) = diff_res_1000

\* A fine cell that holds a value lies beyond the last coarse coordinate of
\* x, and the downsampled raster has a cell with a value.
C28_Witness ==
  /\ pcA = "done"
  /\ Len(x_1000) >= 2
  /\ \E i \in Beyond(diff_regridded.x, x_1000) :
       \E j \in DOMAIN diff_regridded.y : ~IsNaN(diff_regridded.v[j][i])
  /\ \E c \in Cells(diff_res_1000) : ~IsNaN(diff_res_1000.v[c[2]][c[1]])


\* ------------------------------------------------ the order of the samples
\* The vector vec with its rows, labels and values together, in the order p.
Permuted(vec, p) ==
  [z |-> [k \in DOMAIN vec.z |-> vec.z[p[k]]],
   v |-> [k \in DOMAIN vec.z |-> vec.v[p[k]]]]

\* Two rasters with the same x and y labels and the same value at every
\* (x, y).
SameRaster(a, b) ==
  /\ Len(a.x) = Len(b.x) /\ Range(a.x) = Range(b.x)
  /\ Len(a.y) = Len(b.y) /\ Range(a.y) = Range(b.y)
  /\ \A cx \in Range(a.x) : \A cy \in Range(a.y) :
       At(a, cx, cy) = At(b, cx, cy)

\* C23: unstacking the rows of the sample matrix, or of the label vector, in
\* any order, each row with its (x, y) label, gives the raster that the
\* original order gives.
C23_OrderIndependent ==
  pcB = "unstack_2017" =>
    \A p \in Permutations(DOMAIN output_array.z) :
      /\ SameRaster(unstack(Permuted(output_array, p)), unstack(output_array))
      /\ SameRaster(unstack(Permuted(Column(flattened_t_xda, 1), p)),
                    unstack(Column(flattened_t_xda, 1)))

\* A label vector of six samples with different labels.
C23_Witness ==
  /\ pcB = "unstack_2017"
  /\ Len(output_array.z) = 6
  /\ \E k, l \in DOMAIN output_array.z : output_array.v[k] # output_array.v[l]
  /\ \E p \in Permutations(DOMAIN output_array.z) :
       /\ Permuted(output_array, p).v # output_array.v
       /\ SameRaster(unstack(Permuted(output_array, p)), unstack(output_array))


\* ------------------------------------------------ the label image per year
\* The label of sample k sits in the image at the (x, y) of sample k of X.
LabelsPlaced(image) ==
  /\ Len(labels) = Len(X.z)
  /\ \A k \in DOMAIN labels :
       At(image, X.z[k][1], X.z[k][2]) = Num(labels[k])

\* The template and the output array carry the coordinates of the matrix
\* clustered last, made from the scene da.
TemplateOf(da) ==
  /\ template.z = X.z
  /\ template.z = transpose(stack(da)).z
  /\ output_array.z = X.z
  /\ \A k \in DOMAIN labels : output_array.v[k] = Num(labels[k])

\* C24: each year's label image is built from that year's data: the template
\* has the coordinates of the matrix clustered for the year, label i is
\* placed at the (x, y) of sample i, and unstacked_2017 is assigned by the
\* 2017 unstack cell only, not when the 1988 run rebinds the shared names.
C24_ImagePerYear ==
  /\ [](pcB = "unstack_2017" => TemplateOf(da_2017))
  /\ [](pcB = "search_1988" => LabelsPlaced(unstacked_2017))
  /\ [](pcB = "mask" => (TemplateOf(da_1988) /\ LabelsPlaced(unstacked_1988)))
  /\ [][unstacked_2017' # unstacked_2017 => pcB = "unstack_2017"]_vars

\* Both label images are built, from different scenes, and they differ.
C24_Witness ==
  /\ pcB = "mask"
  /\ da_1988 # da_2017
  /\ unstacked_1988 # unstacked_2017
  /\ unstacked_2017 # NoArray
  /\ LabelsPlaced(unstacked_1988)
  /\ ~LabelsPlaced(unstacked_2017)

\* ---------------------------------------------------- the scene selected
\* C26: for both years the scene taken is the second of the search result;
\* the selection succeeds exactly when the search returned two scenes or
\* more, and raises when it returned none or one.
C26_SecondItem ==
  /\ [][pcB = "select_2017" =>
          IF Len(items) >= 2
          THEN pcB' = "load_2017" /\ item' = items[2]
          ELSE pcB' = "error" /\ item' = item]_vars
  /\ [][pcB = "search_1988" =>
          IF Len(items') >= 2
          THEN pcB' = "load_1988" /\ item' = items'[2]
          ELSE pcB' = "error" /\ item' = item]_vars

\* The 2017 search returned one scene and the selection raised.
C26_Witness ==
  /\ pcB = "error"
  /\ Len(items) = 1
  /\ da_2017 = NoScene

\* ------------------------------------------------ the values of the masks
\* The values a mask of label t may hold.
MaskValues(mask, t) ==
  \A c \in Cells(mask) : mask.v[c[2]][c[1]] \in {Num(0), Num(t)}

\* C27: every cell of a water mask is 0 or the year's water label, and a
\* cell of water_diff is 0, t88, -t17 or t88 - t17 as the cell is water in
\* neither year, in 1988 only, in 2017 only or in both.
C27_DiffValues ==
  pcB = "done" =>
    /\ MaskValues(water_1988, water_cluster_1988)
    /\ MaskValues(water_2017, water_cluster_2017)
    /\ \A c \in DiffCells :
         At(water_diff, c[1], c[2]) =
           IF Water_1988(c[1], c[2]) /\ Water_2017(c[1], c[2])
             THEN Num(water_cluster_1988 - water_cluster_2017)
           ELSE IF Water_1988(c[1], c[2]) THEN Num(water_cluster_1988)
           ELSE IF Water_2017(c[1], c[2]) THEN Num(0 - water_cluster_2017)
           ELSE Num(0)

\* A water change with two different labels, with cells that are water in
\* both years and cells that are water in 1988 only.
C27_Witness ==
  /\ pcB = "done"
  /\ water_cluster_1988 = 3 /\ water_cluster_2017 = 2
  /\ Cardinality(DiffCells) = Len(ClusterX) * Len(ClusterY)
  /\ \E c \in DiffCells :
       /\ Water_1988(c[1], c[2]) /\ Water_2017(c[1], c[2])
       /\ At(water_diff, c[1], c[2]) = Num(1)
  /\ \E c \in DiffCells :
       /\ Water_1988(c[1], c[2]) /\ ~Water_2017(c[1], c[2])
       /\ At(water_diff, c[1], c[2]) = Num(3)


\* ------------------------------------------------- a click after the box
\* C25: the box is computed from center as it is when the box cell runs, and
\* the grid from that box; a click after the box was computed changes center
\* and leaves xmin, xmax, ymin, ymax, the grid x and y, and every regridded
\* and downsampled raster as they are, and no cell runs because of it.
C25_ClickLeavesBox ==
  /\ [][(pcA = "roi" /\ pcA' = "bounding_box") =>
          /\ xmin' = center.x - buffer' /\ xmax' = center.x + buffer'
          /\ ymin' = center.y - buffer' /\ ymax' = center.y + buffer']_vars
  /\ [][(pcA = "grid" /\ pcA' = "interp") =>
          /\ x' = arange(xmin, xmax, res')
          /\ y' = arange(ymin, ymax, res')]_vars
  /\ [][(AfterBox /\ tap_stream' # tap_stream) =>
          /\ center' = [x |-> tap_stream'.xy[1], y |-> tap_stream'.xy[2]]
          /\ UNCHANGED <<pcA, varsRoiA, varsGridA, varsRegridA,
                         varsCoarseA>>]_vars
  /\ [](AfterGrid => (x = arange(xmin, xmax, res) /\ y = arange(ymin, ymax, res)))

\* A click arrived after the box was computed, the run went on to its end,
\* and the grid lies on the box of the earlier center.
C25_Witness ==
  /\ pcA = "done"
  /\ tap_stream.xy # <<>>
  /\ center.x # xmin + buffer /\ center.y # ymin + buffer
  /\ x # <<>> /\ x[1] = xmin /\ xmin = TransformedX - buffer
  /\ NDVI_2017_regridded.x = x

====
